---- MODULE Spec2Model ----
(***************************************************************************)
(* Native-function dispatch of the Move VM runtime                         *)
(* (vm_runtime_types/src/native_functions/dispatch.rs).                    *)
(*                                                                         *)
(* Three state machines are modelled:                                      *)
(*   SpecRegister  the add! macro applied to a NativeFunctionMap, driven   *)
(*                 with arbitrary (module, name, dispatch, args, ret);     *)
(*   Spec          the lazily initialised static NATIVE_FUNCTION_MAP and   *)
(*                 concurrent callers of dispatch_native_function;         *)
(*   SpecCall      one native entry point consuming its VecDeque<Local>    *)
(*                 through successive pop_arg! expansions.                 *)
(***************************************************************************)
EXTENDS Naturals, Sequences, FiniteSets

VARIABLES
    \* --- SpecRegister: a NativeFunctionMap under add! ---
    m,                    \* HashMap<String, HashMap<String, NativeFunction>>
    registered,           \* history: the (module, name) pairs add! was applied to
    replaced,             \* history: the pairs whose record an add! replaced by another
    latest,               \* history: per pair, the inputs of its most recent add!
    \* --- Spec: lazy_static NATIVE_FUNCTION_MAP and its readers ---
    once,                 \* state of the Once guarding the static
    NATIVE_FUNCTION_MAP,  \* the static's cell: None until initialised
    pc,                   \* per thread: position in dispatch_native_function
    key,                  \* per thread: the (module_name, function_name) asked
    lm,                   \* per thread: the initialiser's local `m`
    lstep,                \* per thread: index of the next add! of the initialiser
    result,               \* per thread: what the last lookup returned
    builds,               \* history: how many times the initialiser was entered
    answers,              \* history: per key, the set of results ever returned
    \* --- SpecCall: one invocation of a native entry point ---
    status,               \* idle | running | Returned | InvalidArguments | Panicked
    callee,               \* index (in Registrations) of the function invoked
    arguments,            \* the VecDeque<Local> owned by the entry point
    expect,               \* the $t of the pop_arg! expansions still to run
    vals,                 \* the values extracted so far, in extraction order
    orig                  \* history: the Argument Sequence as passed in

regVars  == <<m, registered, replaced, latest>>
lazyVars == <<once, NATIVE_FUNCTION_MAP, pc, key, lm, lstep, result, builds, answers>>
callVars == <<status, callee, arguments, expect, vals, orig>>
vars     == <<regVars, lazyVars, callVars>>

(***************************************************************************)
(* Bounds                                                                  *)
(***************************************************************************)
\* number of interpreter threads calling dispatch_native_function
NumThreads == 2
\* longest Argument Sequence handed to an entry point
MaxArgs == 4

(***************************************************************************)
(* Option<T>                                                               *)
(***************************************************************************)
None == [some |-> FALSE]
Some(v) == [some |-> TRUE, val |-> v]

(***************************************************************************)
(* SignatureToken                                                          *)
(***************************************************************************)
Bool == [tag |-> "Bool"]
U64 == [tag |-> "U64"]
ByteArray == [tag |-> "ByteArray"]
Address == [tag |-> "Address"]
Struct(handle, type_actuals) ==
    [tag |-> "Struct", handle |-> handle, type_actuals |-> type_actuals]
Reference(inner) == [tag |-> "Reference", inner |-> inner]
StructHandleIndex(i) == i

(***************************************************************************)
(* HashMap                                                                 *)
(***************************************************************************)
EmptyMap == [k \in {} |-> {}]

\* variant: an insert that keeps the key's previous value
InsertKeepOld(map, k, v) ==
    [x \in DOMAIN map \cup {k} |-> IF x \in DOMAIN map THEN map[x] ELSE v]

\* HashMap::insert: the key's previous value, if any, is replaced
Insert(map, k, v) ==
    [x \in DOMAIN map \cup {k} |-> IF x = k THEN v ELSE map[x]]

\* HashMap::get
Get(map, k) == IF k \in DOMAIN map THEN Some(map[k]) ELSE None

(***************************************************************************)
(* NativeFunction                                                          *)
(***************************************************************************)
\* variant: the count taken from the return types
num_args_ret(f) == Len(f.expected_signature.return_types)

\* self.expected_signature.arg_types.len()
num_args(f) == Len(f.expected_signature.arg_types)

(***************************************************************************)
(* dispatch_native_function: map.get(module_name)?.get(function_name)      *)
(***************************************************************************)
\* variant: the module name is not used to select the inner map
dispatch_first_module(map, module_name, function_name) ==
    IF DOMAIN map = {} THEN None
    ELSE Get(map[CHOOSE k \in DOMAIN map : TRUE], function_name)

dispatch_native_function(map, module_name, function_name) ==
    LET inner == Get(map, module_name)
    IN  IF ~inner.some THEN None ELSE Get(inner.val, function_name)

(***************************************************************************)
(* add!                                                                    *)
(***************************************************************************)
\* variants of add!: a new inner map on every use; $args and $ret swapped;
\* a new outer map on every use; an existing entry kept
add_fresh_module(map, module, name, dis, args, ret) ==
    LET f == [dispatch |-> dis,
              expected_signature |-> [return_types |-> ret, arg_types |-> args,
                                      kind_constraints |-> <<>>]]
    IN  Insert(map, module, Insert(EmptyMap, name, f))

add_swapped(map, module, name, dis, args, ret) ==
    LET f == [dispatch |-> dis,
              expected_signature |-> [return_types |-> args, arg_types |-> ret,
                                      kind_constraints |-> <<>>]]
        inner == IF module \in DOMAIN map THEN map[module] ELSE EmptyMap
    IN  Insert(map, module, Insert(inner, name, f))

add_reset_map(map, module, name, dis, args, ret) ==
    LET f == [dispatch |-> dis,
              expected_signature |-> [return_types |-> ret, arg_types |-> args,
                                      kind_constraints |-> <<>>]]
        inner == IF module \in DOMAIN map THEN map[module] ELSE EmptyMap
    IN  Insert(EmptyMap, module, Insert(inner, name, f))

add_keep_first(map, module, name, dis, args, ret) ==
    LET f == [dispatch |-> dis,
              expected_signature |-> [return_types |-> ret, arg_types |-> args,
                                      kind_constraints |-> <<>>]]
        inner == IF module \in DOMAIN map THEN map[module] ELSE EmptyMap
    IN  Insert(map, module, InsertKeepOld(inner, name, f))

add(map, module, name, dis, args, ret) ==
    LET expected_signature ==
            [return_types |-> ret, arg_types |-> args, kind_constraints |-> <<>>]
        f == [dispatch |-> dis, expected_signature |-> expected_signature]
        \* $m.entry($module.into()).or_insert_with(HashMap::new)
        inner == IF module \in DOMAIN map THEN map[module] ELSE EmptyMap
    IN  Insert(map, module, Insert(inner, name, f))

(***************************************************************************)
(* SpecRegister: add! applied to a map, any inputs, any number of times    *)
(***************************************************************************)
Modules == {"Hash", "Nope"}
Names == {"keccak256", "foo"}
DispatchFns == {"native_keccak_256", "native_sha3_256"}
ArgLists == {<<ByteArray>>, <<ByteArray, ByteArray, ByteArray>>}
RetLists == {<<Bool>>}

\* let mut m: NativeFunctionMap = HashMap::new();
InitRegister ==
    /\ m = EmptyMap
    /\ registered = {}
    /\ replaced = {}
    /\ latest = EmptyMap

\* add!(m, module, name, dis, args, ret)
Register(module, name, dis, args, ret) ==
    /\ m' = add(m, module, name, dis, args, ret)
    /\ registered' = registered \cup {<<module, name>>}
    /\ replaced' =
           LET before == dispatch_native_function(m, module, name)
               after == dispatch_native_function(m', module, name)
           IN  IF before.some /\ after # before
               THEN replaced \cup {<<module, name>>}
               ELSE replaced
    /\ latest' = Insert(latest, <<module, name>>,
                        [dis |-> dis, args |-> args, ret |-> ret])
    /\ UNCHANGED <<lazyVars, callVars>>

NextRegister ==
    \E module \in Modules, name \in Names, dis \in DispatchFns,
       args \in ArgLists, ret \in RetLists :
        Register(module, name, dis, args, ret)

(***************************************************************************)
(* The initialiser of NATIVE_FUNCTION_MAP: its add! invocations, in order  *)
(***************************************************************************)
Reg(module, name, dis, args, ret) ==
    [module |-> module, name |-> name, dis |-> dis, args |-> args, ret |-> ret]

Registrations ==
    << Reg("Hash", "keccak256", "hash::native_keccak_256",
           <<ByteArray>>, <<ByteArray>>),
       Reg("Hash", "ripemd160", "hash::native_ripemd_160",
           <<ByteArray>>, <<ByteArray>>),
       Reg("Hash", "sha2_256", "hash::native_sha2_256",
           <<ByteArray>>, <<ByteArray>>),
       Reg("Hash", "sha3_256", "hash::native_sha3_256",
           <<ByteArray>>, <<ByteArray>>),
       Reg("Signature", "ed25519_verify",
           "signature::native_ed25519_signature_verification",
           <<ByteArray, ByteArray, ByteArray>>, <<Bool>>),
       Reg("Signature", "ed25519_threshold_verify",
           "signature::native_ed25519_threshold_signature_verification",
           <<ByteArray, ByteArray, ByteArray, ByteArray>>, <<U64>>),
       Reg("AddressUtil", "address_to_bytes",
           "primitive_helpers::native_address_to_bytes",
           <<Address>>, <<ByteArray>>),
       Reg("U64Util", "u64_to_bytes", "primitive_helpers::native_u64_to_bytes",
           <<U64>>, <<ByteArray>>),
       Reg("BytearrayUtil", "bytearray_concat",
           "primitive_helpers::native_bytearray_concat",
           <<ByteArray, ByteArray>>, <<ByteArray>>),
       Reg("Vector", "length", "vector::native_length",
           <<Reference(Struct(StructHandleIndex(0), <<>>))>>, <<U64>>) >>

(***************************************************************************)
(* Spec: lazy_static! NATIVE_FUNCTION_MAP read by concurrent threads       *)
(***************************************************************************)
Threads == 1..NumThreads

\* the (module_name, function_name) pairs the interpreter threads ask for
Keys == { <<"Hash", "keccak256">>, <<"Hash", "foo">>, <<"Nope", "foo">>,
          <<"Signature", "ed25519_verify">> }

InitLazy ==
    /\ once = "INCOMPLETE"
    /\ NATIVE_FUNCTION_MAP = None
    /\ pc = [t \in Threads |-> "idle"]
    /\ key = [t \in Threads |-> <<"Hash", "keccak256">>]
    /\ lm = [t \in Threads |-> EmptyMap]
    /\ lstep = [t \in Threads |-> 1]
    /\ result = [t \in Threads |-> None]
    /\ builds = 0
    /\ answers = [k \in Keys |-> {}]

\* a thread enters dispatch_native_function(module_name, function_name)
Call(t, k) ==
    /\ pc[t] = "idle"
    /\ pc' = [pc EXCEPT ![t] = "deref"]
    /\ key' = [key EXCEPT ![t] = k]
    /\ UNCHANGED <<once, NATIVE_FUNCTION_MAP, lm, lstep, result, builds, answers>>
    /\ UNCHANGED <<regVars, callVars>>

\* deref of the static, Once already COMPLETE: straight to the map
DerefReady(t) ==
    /\ pc[t] = "deref"
    /\ once = "COMPLETE"
    /\ pc' = [pc EXCEPT ![t] = "get"]
    /\ UNCHANGED <<once, NATIVE_FUNCTION_MAP, key, lm, lstep, result, builds, answers>>
    /\ UNCHANGED <<regVars, callVars>>

\* variant: a static without the Once, every first caller runs the block
DerefInitUnguarded(t) ==
    /\ pc[t] = "deref"
    /\ once = "INCOMPLETE"
    /\ pc' = [pc EXCEPT ![t] = "init"]
    /\ lm' = [lm EXCEPT ![t] = EmptyMap]
    /\ lstep' = [lstep EXCEPT ![t] = 1]
    /\ builds' = builds + 1
    /\ UNCHANGED <<once, NATIVE_FUNCTION_MAP, key, result, answers>>
    /\ UNCHANGED <<regVars, callVars>>

\* deref of the static, Once INCOMPLETE: this thread takes it (-> RUNNING) and
\* starts the initialiser block with `let mut m = HashMap::new()`.
\* A thread that finds the Once RUNNING blocks: it has no step until COMPLETE.
DerefInit(t) ==
    /\ pc[t] = "deref"
    /\ once = "INCOMPLETE"
    /\ once' = "RUNNING"
    /\ pc' = [pc EXCEPT ![t] = "init"]
    /\ lm' = [lm EXCEPT ![t] = EmptyMap]
    /\ lstep' = [lstep EXCEPT ![t] = 1]
    /\ builds' = builds + 1
    /\ UNCHANGED <<NATIVE_FUNCTION_MAP, key, result, answers>>
    /\ UNCHANGED <<regVars, callVars>>

\* the next add!(m, ...) of the initialiser block, on its local m
InitAdd(t) ==
    /\ pc[t] = "init"
    /\ lstep[t] <= Len(Registrations)
    /\ LET r == Registrations[lstep[t]]
       IN  lm' = [lm EXCEPT ![t] = add(lm[t], r.module, r.name, r.dis, r.args, r.ret)]
    /\ lstep' = [lstep EXCEPT ![t] = lstep[t] + 1]
    /\ UNCHANGED <<once, NATIVE_FUNCTION_MAP, pc, key, result, builds, answers>>
    /\ UNCHANGED <<regVars, callVars>>

\* the block evaluates to m: the cell is written and the Once becomes COMPLETE
InitDone(t) ==
    /\ pc[t] = "init"
    /\ lstep[t] > Len(Registrations)
    /\ NATIVE_FUNCTION_MAP' = Some(lm[t])
    /\ once' = "COMPLETE"
    /\ pc' = [pc EXCEPT ![t] = "get"]
    /\ UNCHANGED <<key, lm, lstep, result, builds, answers>>
    /\ UNCHANGED <<regVars, callVars>>

\* NATIVE_FUNCTION_MAP.get(module_name)?.get(function_name)
Lookup(t) ==
    /\ pc[t] = "get"
    /\ NATIVE_FUNCTION_MAP.some
    /\ LET r == dispatch_native_function(NATIVE_FUNCTION_MAP.val, key[t][1], key[t][2])
       IN  /\ result' = [result EXCEPT ![t] = r]
           /\ answers' = [answers EXCEPT ![key[t]] = @ \cup {r}]
    /\ pc' = [pc EXCEPT ![t] = "idle"]
    /\ UNCHANGED <<once, NATIVE_FUNCTION_MAP, key, lm, lstep, builds>>
    /\ UNCHANGED <<regVars, callVars>>

Next ==
    \E t \in Threads :
        \/ \E k \in Keys : Call(t, k)
        \/ DerefReady(t)
        \/ DerefInit(t)
        \/ InitAdd(t)
        \/ InitDone(t)
        \/ Lookup(t)

(***************************************************************************)
(* SpecCall: a native entry point and pop_arg!                             *)
(***************************************************************************)
\* runtime values (Local): a tag for the concrete representation, a payload
Locals ==
    { [tag |-> "ByteArray", val |-> "0xAA"], [tag |-> "ByteArray", val |-> "0xBB"],
      [tag |-> "U64", val |-> "7"], [tag |-> "Address", val |-> "0x1"],
      [tag |-> "Reference", val |-> "&vec"] }

ArgumentSequences == UNION { [1..n -> Locals] : n \in 0..MaxArgs }

\* the value of the static once initialised: the block's add!s folded over m
RECURSIVE MapAfter(_)
MapAfter(n) ==
    IF n = 0 THEN EmptyMap
    ELSE LET r == Registrations[n]
         IN  add(MapAfter(n - 1), r.module, r.name, r.dis, r.args, r.ret)

StaticMap == MapAfter(Len(Registrations))

RegisteredKeys == { <<Registrations[i].module, Registrations[i].name>> :
                    i \in 1..Len(Registrations) }

\* Local::value_as::<T>(): the payload when the representation is a T
value_as(local, t) == IF local.tag = t THEN Some(local.val) ELSE None

\* variant: VecDeque::pop_front
pop_front(q) ==
    IF q = <<>> THEN [val |-> None, rest |-> q]
    ELSE [val |-> Some(Head(q)), rest |-> Tail(q)]

\* VecDeque::pop_back
pop_back(q) ==
    IF q = <<>> THEN [val |-> None, rest |-> q]
    ELSE [val |-> Some(q[Len(q)]), rest |-> SubSeq(q, 1, Len(q) - 1)]

\* pop_arg!(arguments, t): the deque afterwards and how control leaves the macro:
\*   "value"  the match yields val and the entry point goes on,
\*   "return" the entry point returns NativeReturnStatus::InvalidArguments,
\*   "panic"  unwrap() of the None that pop_back gives on an empty deque.
\* (variant: the popped value is used without value_as)
pop_arg_unchecked(args, t) ==
    LET p == pop_back(args)
    IN  IF ~p.val.some THEN [arguments |-> p.rest, flow |-> "panic"]
        ELSE [arguments |-> p.rest, flow |-> "value", val |-> p.val.val.val]

pop_arg(args, t) ==
    LET p == pop_back(args)
    IN  IF ~p.val.some THEN [arguments |-> p.rest, flow |-> "panic"]
        ELSE LET v == value_as(p.val.val, t)
             IN  IF v.some
                 THEN [arguments |-> p.rest, flow |-> "value", val |-> v.val]
                 ELSE [arguments |-> p.rest, flow |-> "return"]

RECURSIVE Reverse(_)
Reverse(s) == IF s = <<>> THEN <<>> ELSE Append(Reverse(Tail(s)), Head(s))

\* the body of the entry point of f: one pop_arg! per declared argument, the
\* last declared argument first, each at the representation of its type
EntryPointPops(f) ==
    LET a == f.expected_signature.arg_types
    IN  Reverse([i \in 1..Len(a) |-> a[i].tag])

InitCall ==
    /\ status = "idle"
    /\ callee = None
    /\ arguments = <<>>
    /\ expect = <<>>
    /\ vals = <<>>
    /\ orig = <<>>

\* the interpreter resolves k, and calls (f.dispatch)(args)
Invoke(k, args) ==
    /\ status = "idle"
    /\ LET f == dispatch_native_function(StaticMap, k[1], k[2])
       IN  /\ f.some
           /\ callee' = f
           /\ expect' = EntryPointPops(f.val)
    /\ status' = "running"
    /\ arguments' = args
    /\ orig' = args
    /\ vals' = <<>>
    /\ UNCHANGED <<regVars, lazyVars>>

\* the next pop_arg!(arguments, $t) of the entry point
PopArg ==
    /\ status = "running"
    /\ expect # <<>>
    /\ LET r == pop_arg(arguments, Head(expect))
       IN  /\ arguments' = r.arguments
           /\ status' = CASE r.flow = "value" -> "running"
                          [] r.flow = "return" -> "InvalidArguments"
                          [] r.flow = "panic" -> "Panicked"
           /\ vals' = IF r.flow = "value" THEN Append(vals, r.val) ELSE vals
           /\ expect' = IF r.flow = "value" THEN Tail(expect) ELSE expect
    /\ UNCHANGED <<callee, orig>>
    /\ UNCHANGED <<regVars, lazyVars>>

\* every argument extracted: the operation itself runs and returns its status
Body ==
    /\ status = "running"
    /\ expect = <<>>
    /\ status' = "Returned"
    /\ UNCHANGED <<callee, arguments, expect, vals, orig>>
    /\ UNCHANGED <<regVars, lazyVars>>

NextCall ==
    \/ /\ status = "idle"
       /\ \E k \in RegisteredKeys, args \in ArgumentSequences : Invoke(k, args)
    \/ PopArg
    \/ Body

(***************************************************************************)
(* Specifications                                                          *)
(***************************************************************************)
Init == InitRegister /\ InitLazy /\ InitCall

Spec == Init /\ [][Next]_vars

SpecRegister == Init /\ [][NextRegister]_vars

SpecCall == Init /\ [][NextCall]_vars

(***************************************************************************)
(* Properties of the registry under add! (SpecRegister)                    *)
(***************************************************************************)
\* names asked for: those registered in some run, and some that never are
ProbeModules == Modules \cup {"Signature"}
ProbeNames == Names \cup {"sha3_256"}

\* the record add! builds from its inputs, as the claims describe it
RecordOf(dis, args, ret) ==
    [dispatch |-> dis,
     expected_signature |->
        [return_types |-> ret, arg_types |-> args, kind_constraints |-> <<>>]]

\* C2: lookup(module_name, function_name) returns a record if and only if that
\* exact (module, function) pair has been registered: absent for an unknown
\* module, absent for an unknown function of a known module.
C2_LookupIffRegistered ==
    \A mod \in ProbeModules, fn \in ProbeNames :
        dispatch_native_function(m, mod, fn).some <=> <<mod, fn>> \in registered

C2_Witness ==
    /\ registered = {<<"Hash", "keccak256">>}
    /\ dispatch_native_function(m, "Hash", "keccak256").some
    /\ ~dispatch_native_function(m, "Hash", "foo").some
    /\ ~dispatch_native_function(m, "Nope", "foo").some

\* C3: after any sequence of register operations, lookup(mod, fn) is exactly
\* the record of the most recent register(mod, fn, ...), whatever was
\* registered for the pair before (last write wins).
C3_LastWriteWins ==
    \A p \in registered :
        dispatch_native_function(m, p[1], p[2])
            = Some(RecordOf(latest[p].dis, latest[p].args, latest[p].ret))

C3_Witness ==
    /\ <<"Hash", "keccak256">> \in replaced
    /\ dispatch_native_function(m, "Hash", "keccak256")
         = Some(RecordOf("native_sha3_256",
                         <<ByteArray, ByteArray, ByteArray>>, <<Bool>>))

\* C4: register(mod, f, ...) leaves lookup(mod, g) as it was for every other
\* function g of the same module: the module-level mapping is reused.
C4_SameModuleUndisturbed ==
    [][\A module \in Modules, name \in Names, dis \in DispatchFns,
          args \in ArgLists, ret \in RetLists :
            Register(module, name, dis, args, ret) =>
                \A g \in ProbeNames \ {name} :
                    dispatch_native_function(m', module, g)
                        = dispatch_native_function(m, module, g)]_vars

C4_Witness ==
    /\ dispatch_native_function(m, "Hash", "keccak256")
         = Some(RecordOf("native_keccak_256", <<ByteArray>>, <<Bool>>))
    /\ dispatch_native_function(m, "Hash", "foo")
         = Some(RecordOf("native_sha3_256",
                         <<ByteArray, ByteArray, ByteArray>>, <<Bool>>))

\* C6: every record of the registry has num_args() equal to the length of its
\* signature's arg_types, which is the length of the argument type list of the
\* pair's most recent registration.
C6_NumArgsIsArgTypesLen ==
    \A mod \in DOMAIN m : \A fn \in DOMAIN m[mod] :
        /\ num_args(m[mod][fn]) = Len(m[mod][fn].expected_signature.arg_types)
        /\ num_args(m[mod][fn]) = Len(latest[<<mod, fn>>].args)

C6_Witness ==
    /\ <<"Hash", "keccak256">> \in replaced
    /\ Len(m["Hash"]["keccak256"].expected_signature.return_types)
         # Len(m["Hash"]["keccak256"].expected_signature.arg_types)
    /\ num_args(m["Hash"]["keccak256"]) = 3

\* C10: a pair that lookup resolves stays resolvable after every later
\* registration, and register(mod, f, ...) leaves lookup(mod2, g) as it was for
\* every other module mod2 and every g.
C10_NeverShrinksAndModulesIsolated ==
    [][/\ \A mod \in ProbeModules, fn \in ProbeNames :
            dispatch_native_function(m, mod, fn).some
                => dispatch_native_function(m', mod, fn).some
       /\ \A module \in Modules, name \in Names, dis \in DispatchFns,
             args \in ArgLists, ret \in RetLists :
               Register(module, name, dis, args, ret) =>
                   \A mod2 \in ProbeModules \ {module}, g \in ProbeNames :
                       dispatch_native_function(m', mod2, g)
                           = dispatch_native_function(m, mod2, g)]_vars

C10_Witness ==
    /\ dispatch_native_function(m, "Hash", "keccak256").some
    /\ dispatch_native_function(m, "Nope", "foo").some
    /\ <<"Nope", "foo">> \in replaced

(***************************************************************************)
(* Properties of the static registry and its readers (Spec)                *)
(***************************************************************************)
SigOf(map, mod, fn) == dispatch_native_function(map, mod, fn).val.expected_signature

\* C5: once constructed, the table holds exactly the ten built-in entries with
\* their declared ordered argument and return types, and no other pair.
C5_BuiltinTable ==
    NATIVE_FUNCTION_MAP.some =>
        LET T == NATIVE_FUNCTION_MAP.val
            f(mod, fn) == dispatch_native_function(T, mod, fn)
        IN  /\ DOMAIN T = {"Hash", "Signature", "AddressUtil", "U64Util",
                           "BytearrayUtil", "Vector"}
            /\ DOMAIN T["Hash"] = {"keccak256", "ripemd160", "sha2_256", "sha3_256"}
            /\ DOMAIN T["Signature"] = {"ed25519_verify", "ed25519_threshold_verify"}
            /\ DOMAIN T["AddressUtil"] = {"address_to_bytes"}
            /\ DOMAIN T["U64Util"] = {"u64_to_bytes"}
            /\ DOMAIN T["BytearrayUtil"] = {"bytearray_concat"}
            /\ DOMAIN T["Vector"] = {"length"}
            /\ \A h \in DOMAIN T["Hash"] :
                 /\ num_args(f("Hash", h).val) = 1
                 /\ SigOf(T, "Hash", h).arg_types = <<ByteArray>>
                 /\ SigOf(T, "Hash", h).return_types = <<ByteArray>>
            /\ num_args(f("Signature", "ed25519_verify").val)
                 = 3
            /\ SigOf(T, "Signature", "ed25519_verify").arg_types
                 = <<ByteArray, ByteArray, ByteArray>>
            /\ SigOf(T, "Signature", "ed25519_verify").return_types = <<Bool>>
            /\ num_args(f("Signature", "ed25519_threshold_verify").val)
                 = 4
            /\ SigOf(T, "Signature", "ed25519_threshold_verify").arg_types
                 = <<ByteArray, ByteArray, ByteArray, ByteArray>>
            /\ SigOf(T, "Signature", "ed25519_threshold_verify").return_types = <<U64>>
            /\ SigOf(T, "AddressUtil", "address_to_bytes").arg_types = <<Address>>
            /\ SigOf(T, "AddressUtil", "address_to_bytes").return_types = <<ByteArray>>
            /\ SigOf(T, "U64Util", "u64_to_bytes").arg_types = <<U64>>
            /\ SigOf(T, "U64Util", "u64_to_bytes").return_types = <<ByteArray>>
            /\ SigOf(T, "BytearrayUtil", "bytearray_concat").arg_types
                 = <<ByteArray, ByteArray>>
            /\ SigOf(T, "BytearrayUtil", "bytearray_concat").return_types
                 = <<ByteArray>>
            /\ Len(SigOf(T, "Vector", "length").arg_types) = 1
            /\ SigOf(T, "Vector", "length").arg_types[1].tag
                 = "Reference"
            /\ SigOf(T, "Vector", "length").arg_types[1].inner.tag
                 = "Struct"
            /\ SigOf(T, "Vector", "length").return_types = <<U64>>

C5_Witness ==
    /\ once = "COMPLETE"
    /\ NATIVE_FUNCTION_MAP.some
    /\ \E t \in Threads :
         /\ key[t] = <<"Signature", "ed25519_verify">>
         /\ result[t].some
         /\ num_args(result[t].val) = 3

\* C7: the registry is constructed exactly once, before any lookup is served,
\* also when several threads make the first lookup at once; no lookup reads a
\* partially populated table; once constructed it never changes, and every
\* lookup of the same key returns the same result.
C7_ConstructedOnceThenReadOnly ==
    /\ [](/\ builds <= 1
          /\ \A t \in Threads :
               pc[t] = "get" =>
                 /\ once = "COMPLETE"
                 /\ builds = 1
                 /\ NATIVE_FUNCTION_MAP.some
                 /\ \A k \in RegisteredKeys :
                      dispatch_native_function(NATIVE_FUNCTION_MAP.val, k[1], k[2]).some
          /\ \A k \in Keys : Cardinality(answers[k]) <= 1)
    /\ [][/\ once = "COMPLETE" => UNCHANGED <<once, NATIVE_FUNCTION_MAP>>
          /\ \A t \in Threads : Lookup(t) => UNCHANGED <<once, NATIVE_FUNCTION_MAP>>]_vars

C7_Witness ==
    \E t1, t2 \in Threads :
        /\ t1 # t2
        /\ pc[t1] = "get"
        /\ pc[t2] = "get"
        /\ key[t1] = key[t2]
        /\ answers[key[t1]] # {}

(***************************************************************************)
(* Properties of an entry point's argument extraction (SpecCall)           *)
(***************************************************************************)
\* C1: an Argument Sequence shorter than num_args() yields InvalidArguments,
\* never a crash: when the call has ended, it ended with InvalidArguments.
C1_ShortSequenceYieldsInvalidArguments ==
    (/\ status \notin {"idle", "running"}
     /\ Len(orig) < num_args(callee.val))
        => status = "InvalidArguments"

\* C8: a pop_arg! whose next element is not of the expected representation makes
\* the entry point return InvalidArguments at once, and after that return nothing
\* more is extracted.
C8_MismatchReturnsInvalidArguments ==
    [][/\ (/\ status = "running"
           /\ expect # <<>>
           /\ arguments # <<>>
           /\ arguments[Len(arguments)].tag # Head(expect))
          => (/\ status' = "InvalidArguments"
              /\ vals' = vals)
       /\ status = "InvalidArguments"
          => UNCHANGED <<status, arguments, vals, expect>>]_vars

C8_Witness ==
    /\ status = "InvalidArguments"
    /\ Len(expect) > 1
    /\ arguments # <<>>
    /\ vals # <<>>

\* C9: the k-th successful extraction returns the k-th element counted from the
\* back of the Argument Sequence, and each extraction removes exactly one
\* element, from the back.
C9_ExtractedFromTheBack ==
    status # "idle" =>
        /\ \A k \in 1..Len(vals) : vals[k] = orig[Len(orig) - k + 1].val
        /\ Len(arguments) + Len(vals)
             + (IF status = "InvalidArguments" THEN 1 ELSE 0)
             = Len(orig)
        /\ arguments = SubSeq(orig, 1, Len(arguments))

C9_Witness ==
    /\ status = "Returned"
    /\ orig = << [tag |-> "ByteArray", val |-> "0xAA"],
                 [tag |-> "ByteArray", val |-> "0xAA"],
                 [tag |-> "ByteArray", val |-> "0xBB"] >>
    /\ vals = << "0xBB", "0xAA" >>
    /\ arguments = << [tag |-> "ByteArray", val |-> "0xAA"] >>

====
